---- MODULE Spec2Model ----
(***************************************************************************)
(* cargo-run-wasm: one invocation of the tool, either through the command  *)
(* line entry point run_wasm_cli_with_css (src/src/lib.rs) or through the  *)
(* RunWasm builder used as a library, followed by RunWasm::run and the     *)
(* directory resolution of CargoDirectories::new (src/src/target_dir.rs).  *)
(*                                                                         *)
(* Paths are sequences of path segments, the filesystem root is <<>>.      *)
(* Option<T> is a sequence: <<>> is None and <<v>> is Some(v).             *)
(* Text (css, the page) is a sequence of text fragments.                   *)
(***************************************************************************)
EXTENDS Naturals, Sequences, FiniteSets

\* ------------------------------------------------------------------ bounds

\* Longest manifest directory (number of segments below the root).
MaxDepth == 1
\* Longest command line handed to Args::from_env.
MaxArgv == 3

\* ------------------------------------------------------------ input domains

None == <<>>
Some(v) == <<v>>

\* The deepest manifest directory considered; CARGO_MANIFEST_DIR is a prefix of it.
DeepestDir == <<"ws", "crate", "xtask", "sub">>
ArgTokens == {"--package", "--release", "--profile", "--target", "--target-dir", "app"}
PackageNames == {"pkg"}
ExampleNames == {"demo"}
BinNames == {"tool"}
ProfileNames == {"dev", "small"}
CssTexts == {<<>>, <<"body{margin:0}">>, <<"a{}", "</style>", "<script>">>}
BuildArgLists == {<<>>, <<"--locked", "--target", "x86_64", "--target-dir", "out">>}
\* Texts given as the port: one that parses as an integer, one that does not.
PortTexts == {"http"}
IntegerTexts == {"8000", "8080"}
\* What the metadata query may report as target_directory and as workspace_root.
MetaTargetDirs == {<<"ext", "cache">>}
MetaWorkspaceRoots == {<<"ws">>}

RECURSIVE SeqsUpTo(_, _)
SeqsUpTo(S, n) ==
    IF n = 0 THEN {<<>>}
    ELSE LET shorter == SeqsUpTo(S, n - 1)
         IN shorter \cup {Append(s, x) : s \in {t \in shorter : Len(t) = n - 1}, x \in S}

Opt(S) == {None} \cup {Some(v) : v \in S}

\* ------------------------------------------------------------ path helpers

\* Path::join with a single relative component.
Join(p, seg) == Append(p, seg)
\* PathBuf::pop: the parent, defined when the path is not the root.
Parent(p) == SubSeq(p, 1, Len(p) - 1)
\* The chain p, parent(p), ..., root.
Ancestors(p) == {SubSeq(p, 1, k) : k \in 0..Len(p)}

\* ------------------------------------------------- pico_args::Arguments

\* Index of the first argument equal to key, 0 when absent.
IndexOf(a, key) ==
    IF \E i \in 1..Len(a) : a[i] = key
    THEN CHOOSE i \in 1..Len(a) : a[i] = key /\ \A j \in 1..(i - 1) : a[j] # key
    ELSE 0

RemoveAt(a, i) == SubSeq(a, 1, i - 1) \o SubSeq(a, i + 1, Len(a))

\* Arguments::contains: true when present; the first occurrence is removed.
PicoContains(a, key) ==
    LET i == IndexOf(a, key)
    IN [found |-> i # 0, rest |-> IF i = 0 THEN a ELSE RemoveAt(a, i)]

\* Arguments::opt_value_from_str for `--key value`: Err when the key is the last
\* argument, otherwise the key and the argument after it are removed.
PicoOptValue(a, key) ==
    LET i == IndexOf(a, key)
    IN IF i = 0 THEN [err |-> FALSE, val |-> None, rest |-> a]
       ELSE IF i = Len(a) THEN [err |-> TRUE, val |-> None, rest |-> a]
       ELSE [err |-> FALSE, val |-> Some(a[i + 1]), rest |-> RemoveAt(RemoveAt(a, i), i)]

\* a.contains(k1) || a.contains(k2), short-circuit.
PicoContainsEither(a, k1, k2) ==
    LET c1 == PicoContains(a, k1)
    IN IF c1.found THEN c1 ELSE PicoContains(a, k2)

\* ------------------------------------------------------------ Args::from_env

Panic == [tag |-> "panic"]
ErrOf(msg) == [tag |-> "err", msg |-> msg]

\* The banned-option loop: Err for the first banned option followed by a value.
BannedOptions == <<"--target", "--target-dir">>

RECURSIVE CheckBanned(_, _)
CheckBanned(a, k) ==
    IF k > Len(BannedOptions) THEN [tag |-> "ok", rest |-> a]
    ELSE LET o == PicoOptValue(a, BannedOptions[k])
         IN IF o.err THEN Panic
            ELSE IF o.val # None THEN ErrOf("unsupported option")
            ELSE CheckBanned(o.rest, k + 1)

FromEnv(argv) ==
    LET rel == PicoContainsEither(argv, "--release", "-r")
        prof == PicoOptValue(rel.rest, "--profile")
    IN IF prof.err THEN Panic
       ELSE IF rel.found /\ prof.val # None THEN ErrOf("conflicting usage of --profile and --release")
       ELSE
       LET profile == IF prof.val # None THEN prof.val
                      ELSE IF rel.found THEN Some("release") ELSE None
           bo == PicoContains(prof.rest, "--build-only")
           hlp == PicoContainsEither(bo.rest, "--help", "-h")
           host == PicoOptValue(hlp.rest, "--host")
       IN IF host.err THEN Panic ELSE
       LET port == PicoOptValue(host.rest, "--port")
       IN IF port.err THEN Panic ELSE
       LET pk1 == PicoOptValue(port.rest, "--package")
       IN IF pk1.err THEN Panic ELSE
       LET pk == IF pk1.val # None THEN pk1 ELSE PicoOptValue(pk1.rest, "-p")
       IN IF pk.err THEN Panic ELSE
       LET ex == PicoOptValue(pk.rest, "--example")
       IN IF ex.err THEN Panic ELSE
       LET bin == PicoOptValue(ex.rest, "--bin")
       IN IF bin.err THEN Panic ELSE
       LET ban == CheckBanned(bin.rest, 1)
       IN IF ban.tag # "ok" THEN ban
          ELSE [tag |-> "ok",
                args |-> [help |-> hlp.found, profile |-> profile,
                          build_only |-> bo.found, host |-> host.val,
                          port |-> port.val, build_args |-> ban.rest,
                          package |-> pk.val, example |-> ex.val, bin |-> bin.val]]

\* ------------------------------------------------------------------- state

VARIABLES
    pc,             \* position of the invocation
    entry,          \* "none", "cli" (run_wasm_cli_with_css) or "lib" (RunWasm builder)
    argv,           \* the command line Args::from_env parsed (cli)
    css_arg,        \* Option: the text last passed to with_css
    rw,             \* the RunWasm value
    manifest_dir,   \* CARGO_MANIFEST_DIR
    fs,             \* the paths that exist on disk
    workspace_root, \* the loop variable of CargoDirectories::new
    dirs,           \* Option: the CargoDirectories returned
    query,          \* the metadata process: "not_started", "running", "exited"
    meta_out,       \* Option: what the metadata process printed and how it exited
    cargo_args,     \* the argument list given to the compiler
    index_html,     \* Option: the text written to index.html
    build_status,   \* the compiler run: "none", "failed" or "success"
    wasm_source,    \* Option: the artifact path run() looked for
    events,         \* the external steps taken, in order
    result          \* how the invocation ended

vars == <<pc, entry, argv, css_arg, rw, manifest_dir, fs, workspace_root, dirs,
          query, meta_out, cargo_args, build_status, wasm_source, index_html,
          events, result>>

\* cargo_args before the compiler is given any.
NoArgs == [head |-> <<>>, target_dir |-> <<>>, rest |-> <<>>]

Running == [tag |-> "running", msg |-> ""]
Ended(tag, msg) == [tag |-> tag, msg |-> msg]

\* RunWasm::new
RunWasmNew ==
    [css |-> <<>>, profile |-> None, bin |-> None, example |-> None,
     package |-> None, cargo_build_args |-> <<>>, build_only |-> FALSE,
     host |-> None, port |-> None]

ManifestDirs == {SubSeq(DeepestDir, 1, k) : k \in 0..MaxDepth}

\* The paths the ancestor walk of CargoDirectories::new looks at.
WalkPaths(m) == {Join(d, "target") : d \in Ancestors(m)} \cup {Join(d, "Cargo.toml") : d \in Ancestors(m)}

Init ==
    /\ pc = "start"
    /\ entry = "none"
    /\ argv = <<>>
    /\ css_arg = None
    /\ rw = RunWasmNew
    /\ manifest_dir \in ManifestDirs
    /\ fs \in SUBSET WalkPaths(manifest_dir)
    /\ workspace_root = <<>>
    /\ dirs = None
    /\ query = "not_started"
    /\ meta_out = None
    /\ cargo_args = NoArgs
    /\ build_status = "none"
    /\ wasm_source = None
    /\ index_html = None
    /\ events = <<>>
    /\ result = Running

\* ------------------------------------------------------------ the builder

\* str::contains on text fragments.
Contains(text, frag) == \E i \in 1..Len(text) : text[i] = frag

\* Mutation: the css is not validated.
WithCssNeverPanics(css) == FALSE

\* RunWasm::with_css: panics on `</style>`, otherwise stores the css.
WithCssPanics(css) == Contains(css, "</style>")

\* The builder chain of run_wasm_cli_with_css after with_css.
FromArgs(css, a) ==
    [css |-> css, profile |-> a.profile, bin |-> a.bin, example |-> a.example,
     package |-> a.package, cargo_build_args |-> a.build_args,
     build_only |-> a.build_only, host |-> a.host, port |-> a.port]

Finish(tag, msg) ==
    /\ pc' = "done"
    /\ result' = Ended(tag, msg)

\* run_wasm_cli_with_css up to the call of run(): parse the command line, print
\* the error or the help and return, otherwise build the RunWasm value.
RunWasmCliWithCss ==
    /\ pc = "start"
    /\ \E a \in SeqsUpTo(ArgTokens, MaxArgv), css \in CssTexts :
         LET r == FromEnv(a)
         IN /\ argv' = a
            /\ entry' = "cli"
            /\ IF r.tag = "panic"
               THEN Finish("panic", "option without a value") /\ UNCHANGED <<rw, css_arg>>
               ELSE IF r.tag = "err"
               THEN Finish("err", r.msg) /\ UNCHANGED <<rw, css_arg>>
               ELSE IF r.args.help
               THEN Finish("help", "HELP") /\ UNCHANGED <<rw, css_arg>>
               ELSE /\ css_arg' = Some(css)
                    /\ IF WithCssPanics(css)
                       THEN Finish("panic", "</style> detected in the css") /\ UNCHANGED rw
                       ELSE /\ rw' = FromArgs(css, r.args)
                            /\ pc' = "run"
                            /\ UNCHANGED result
    /\ UNCHANGED <<manifest_dir, fs, workspace_root, dirs, query, meta_out,
                   cargo_args, build_status, wasm_source, index_html, events>>

\* What the builder methods leave alone.
BuilderFrame ==
    UNCHANGED <<argv, manifest_dir, fs, workspace_root, dirs, query, meta_out,
                cargo_args, build_status, wasm_source, index_html, events>>

\* A caller using the library: RunWasm::new().
LibNew ==
    /\ pc = "start"
    /\ entry' = "lib"
    /\ pc' = "builder"
    /\ rw' = RunWasmNew
    /\ UNCHANGED <<css_arg, result>>
    /\ BuilderFrame

WithCss ==
    /\ pc = "builder"
    /\ \E css \in CssTexts :
         /\ css_arg' = Some(css)
         /\ IF WithCssPanics(css)
            THEN Finish("panic", "</style> detected in the css") /\ UNCHANGED rw
            ELSE rw' = [rw EXCEPT !.css = css] /\ UNCHANGED <<pc, result>>
    /\ UNCHANGED entry
    /\ BuilderFrame

\* RunWasm::with_package
WithPackage ==
    /\ pc = "builder"
    /\ \E v \in Opt(PackageNames) : rw' = [rw EXCEPT !.package = v]
    /\ UNCHANGED <<pc, entry, css_arg, result>>
    /\ BuilderFrame

\* RunWasm::with_example
WithExample ==
    /\ pc = "builder"
    /\ \E v \in Opt(ExampleNames) : rw' = [rw EXCEPT !.example = v]
    /\ UNCHANGED <<pc, entry, css_arg, result>>
    /\ BuilderFrame

\* RunWasm::with_bin
WithBin ==
    /\ pc = "builder"
    /\ \E v \in Opt(BinNames) : rw' = [rw EXCEPT !.bin = v]
    /\ UNCHANGED <<pc, entry, css_arg, result>>
    /\ BuilderFrame

\* RunWasm::with_profile
WithProfile ==
    /\ pc = "builder"
    /\ \E v \in Opt(ProfileNames) : rw' = [rw EXCEPT !.profile = v]
    /\ UNCHANGED <<pc, entry, css_arg, result>>
    /\ BuilderFrame

\* RunWasm::with_cargo_build_args: stores the list as given
WithCargoBuildArgs ==
    /\ pc = "builder"
    /\ \E v \in BuildArgLists : rw' = [rw EXCEPT !.cargo_build_args = v]
    /\ UNCHANGED <<pc, entry, css_arg, result>>
    /\ BuilderFrame

\* RunWasm::with_build_only
WithBuildOnly ==
    /\ pc = "builder"
    /\ \E v \in BOOLEAN : rw' = [rw EXCEPT !.build_only = v]
    /\ UNCHANGED <<pc, entry, css_arg, result>>
    /\ BuilderFrame

\* RunWasm::with_port
WithPort ==
    /\ pc = "builder"
    /\ \E v \in Opt(PortTexts) : rw' = [rw EXCEPT !.port = v]
    /\ UNCHANGED <<pc, entry, css_arg, result>>
    /\ BuilderFrame

\* The caller ends the builder chain with .run().
LibRun ==
    /\ pc = "builder"
    /\ pc' = "run"
    /\ UNCHANGED <<entry, css_arg, rw, result>>
    /\ BuilderFrame

\* -------------------------------------------------------- RunWasm::run

\* example.or(bin).or(package)
BinaryName(r) ==
    IF r.example # None THEN r.example
    ELSE IF r.bin # None THEN r.bin
    ELSE r.package

RunFrame ==
    UNCHANGED <<entry, argv, css_arg, rw, manifest_dir>>

\* The head of run(): the name of the binary, or the error that no selector was given.
RunBegin ==
    /\ pc = "run"
    /\ IF BinaryName(rw) = None
       THEN Finish("err", "Need to use at least one of --package, --example, --bin")
            /\ UNCHANGED workspace_root
       ELSE /\ pc' = "resolve"
            /\ workspace_root' = manifest_dir
            /\ UNCHANGED result
    /\ UNCHANGED <<build_status, wasm_source, fs, dirs, query, meta_out, cargo_args, index_html, events>>
    /\ RunFrame

\* ------------------------------------------------- CargoDirectories::new

\* Mutation: the manifest file is not looked for.
HeuristicMatchTargetOnly(d, files) == Join(d, "target") \in files

\* target.exists() && cargo_toml.exists()
HeuristicMatch(d, files) == Join(d, "target") \in files /\ Join(d, "Cargo.toml") \in files

FoundDirs(d) == [workspace_root |-> d, target_directory |-> Join(d, "target")]

\* Mutation: the loop gives up at the first directory that does not match.
HeuristicStepNoWalk ==
    /\ pc = "resolve"
    /\ IF HeuristicMatch(workspace_root, fs)
       THEN /\ dirs' = Some(FoundDirs(workspace_root))
            /\ pc' = "build"
       ELSE /\ pc' = "from_cargo"
            /\ UNCHANGED dirs
    /\ UNCHANGED <<build_status, wasm_source, fs, workspace_root, query, meta_out,
                   cargo_args, index_html, events, result>>
    /\ UNCHANGED <<entry, argv, css_arg, rw, manifest_dir>>

\* One iteration of the loop: return the match, or pop, or leave the loop at the root.
HeuristicStep ==
    /\ pc = "resolve"
    /\ IF HeuristicMatch(workspace_root, fs)
       THEN /\ dirs' = Some(FoundDirs(workspace_root))
            /\ pc' = "build"
            /\ UNCHANGED workspace_root
       ELSE IF workspace_root = <<>>
       THEN /\ pc' = "from_cargo"
            /\ UNCHANGED <<dirs, workspace_root>>
       ELSE /\ workspace_root' = Parent(workspace_root)
            /\ UNCHANGED <<dirs, pc>>
    /\ UNCHANGED <<build_status, wasm_source, fs, query, meta_out, cargo_args, index_html, events, result>>
    /\ RunFrame

\* ------------------------------------------ CargoDirectories::from_cargo

\* A field of the JSON object the metadata process printed.
MetaFields(paths) ==
    {[tag |-> "missing", path |-> <<>>], [tag |-> "not_string", path |-> <<>>]}
    \cup {[tag |-> "string", path |-> p] : p \in paths}

Absent == [tag |-> "missing", path |-> <<>>]

\* The standard output of the metadata process.
MetaStdouts ==
    {[kind |-> k, target_directory |-> Absent, workspace_root |-> Absent] :
        k \in {"not_utf8", "not_json", "not_object"}}
    \cup {[kind |-> "object", target_directory |-> t, workspace_root |-> w] :
            t \in MetaFields(MetaTargetDirs), w \in MetaFields(MetaWorkspaceRoots)}

MetaOutputs == [success : BOOLEAN, stdout : MetaStdouts]

\* Mutation: the two fields are read into each other's place.
ParseMetadataSwapped(out) ==
    IF out.kind # "object" \/ out.target_directory.tag # "string" \/ out.workspace_root.tag # "string"
    THEN [tag |-> "panic", msg |-> "unparseable"]
    ELSE [tag |-> "ok",
          dirs |-> [workspace_root |-> out.target_directory.path,
                    target_directory |-> out.workspace_root.path]]

\* The parsing of from_cargo: each expect/unwrap panics, in the order of the code.
ParseMetadata(out) ==
    IF out.kind = "not_utf8" THEN [tag |-> "panic", msg |-> "Command output should be utf-8"]
    ELSE IF out.kind = "not_json" THEN [tag |-> "panic", msg |-> "Should match the CargoMetadata definition"]
    ELSE IF out.kind = "not_object" THEN [tag |-> "panic", msg |-> "Metadata should be object"]
    ELSE IF out.target_directory.tag = "missing" THEN [tag |-> "panic", msg |-> "Should have target directory"]
    ELSE IF out.target_directory.tag = "not_string" THEN [tag |-> "panic", msg |-> "unwrap on None"]
    ELSE IF out.workspace_root.tag = "missing" THEN [tag |-> "panic", msg |-> "Should have target directory"]
    ELSE IF out.workspace_root.tag = "not_string" THEN [tag |-> "panic", msg |-> "unwrap on None"]
    ELSE [tag |-> "ok",
          dirs |-> [workspace_root |-> out.workspace_root.path,
                    target_directory |-> out.target_directory.path]]

\* Command::output() starts the metadata process, or fails to (unwrap panics).
FromCargoSpawn ==
    /\ pc = "from_cargo"
    /\ \E spawned \in BOOLEAN :
         IF spawned
         THEN /\ query' = "running"
              /\ events' = Append(events, "metadata_query")
              /\ pc' = "query_wait"
              /\ UNCHANGED result
         ELSE Finish("panic", "could not run the metadata query") /\ UNCHANGED <<query, events>>
    /\ UNCHANGED <<build_status, wasm_source, fs, workspace_root, dirs, meta_out, cargo_args, index_html>>
    /\ RunFrame

\* The metadata process prints its output and exits.
QueryExit ==
    /\ query = "running"
    /\ \E out \in MetaOutputs : meta_out' = Some(out)
    /\ query' = "exited"
    /\ UNCHANGED <<build_status, wasm_source, pc, fs, workspace_root, dirs, cargo_args, index_html, events, result>>
    /\ RunFrame

\* output() returns once the process has exited; its standard output is parsed.
FromCargoParse ==
    /\ pc = "query_wait"
    /\ query = "exited"
    /\ LET r == ParseMetadata(meta_out[1].stdout)
       IN IF r.tag = "panic"
          THEN Finish("panic", r.msg) /\ UNCHANGED dirs
          ELSE /\ dirs' = Some(r.dirs)
               /\ pc' = "build"
               /\ UNCHANGED result
    /\ UNCHANGED <<build_status, wasm_source, fs, workspace_root, query, meta_out, cargo_args, index_html, events>>
    /\ RunFrame

\* ------------------------------------------------ the build, in run()

WasmTriple == "wasm32-unknown-unknown"

\* target_directory.join("wasm-examples-target")
TargetTarget(target_directory) == Join(target_directory, "wasm-examples-target")

OptionArgs(flag, opt) == IF opt = None THEN <<>> ELSE <<flag, opt[1]>>

\* cargo_args: the fixed head, the --target-dir value (a path), then the selectors,
\* the profile and the passthrough arguments.
ComposeArgs(r, target_target) ==
    [head |-> <<"build", "--target", WasmTriple, "--target-dir">>,
     target_dir |-> target_target,
     rest |-> OptionArgs("--package", r.package) \o OptionArgs("--example", r.example)
              \o OptionArgs("--bin", r.bin) \o OptionArgs("--profile", r.profile)
              \o r.cargo_build_args]

\* Mutation: the `dev` profile is not mapped to the `debug` directory.
ProfileDirNameRaw(profile) == IF profile # None THEN profile[1] ELSE "debug"

\* The match on self.profile.
ProfileDirName(profile) ==
    IF profile = Some("dev") THEN "debug"
    ELSE IF profile # None THEN profile[1]
    ELSE "debug"

\* wasm_source; the file name `N.wasm` is the two fragments N, ".wasm".
WasmSource(r, target_directory) ==
    LET target_profile == Join(Join(TargetTarget(target_directory), WasmTriple),
                               ProfileDirName(r.profile))
        dir == IF r.example # None THEN Join(target_profile, "examples") ELSE target_profile
    IN dir \o <<BinaryName(r)[1], ".wasm">>

\* example_dest
ExampleDest(r, target_directory) ==
    Join(Join(target_directory, "wasm-examples"), BinaryName(r)[1])

\* Where the compiler puts the binary of a request built into output directory td:
\* td/<triple>/<profile directory>/[examples/]<name>.wasm.
CargoArtifact(td, r) ==
    LET profile_dir == IF r.profile = None \/ r.profile = Some("dev") THEN "debug" ELSE r.profile[1]
        base == <<WasmTriple, profile_dir>> \o (IF r.example # None THEN <<"examples">> ELSE <<>>)
        name == IF r.example # None THEN r.example[1]
                ELSE IF r.bin # None THEN r.bin[1] ELSE r.package[1]
    IN td \o base \o <<name, ".wasm">>

BuildOutcomes == {"not_spawned", "failed", "built", "built_nothing"}

\* Mutation: the exit status of the compiler is not looked at.
CargoBuildStatusIgnored ==
    /\ pc = "build"
    /\ \E o \in BuildOutcomes \ {"not_spawned"} :
         /\ cargo_args' = ComposeArgs(rw, TargetTarget(dirs[1].target_directory))
         /\ events' = Append(events, "cargo_build")
         /\ build_status' = IF o = "failed" THEN "failed" ELSE "success"
         /\ pc' = "check"
         /\ fs' = IF o = "built"
                  THEN fs \cup {CargoArtifact(TargetTarget(dirs[1].target_directory), rw)}
                  ELSE fs
    /\ UNCHANGED <<wasm_source, workspace_root, dirs, query, meta_out, index_html, result>>
    /\ UNCHANGED <<entry, argv, css_arg, rw, manifest_dir>>

\* Compose the arguments and run the compiler to completion.
CargoBuild ==
    /\ pc = "build"
    /\ LET target_target == TargetTarget(dirs[1].target_directory)
           args == ComposeArgs(rw, target_target)
       IN \E o \in BuildOutcomes :
            IF o = "not_spawned"
            THEN Finish("panic", "could not run cargo")
                 /\ UNCHANGED <<cargo_args, build_status, events, fs>>
            ELSE /\ cargo_args' = args
                 /\ build_status' = IF o = "failed" THEN "failed" ELSE "success"
                 /\ events' = Append(events, "cargo_build")
                 /\ IF o = "failed"
                    THEN Finish("err", "Failed due to cargo error") /\ UNCHANGED fs
                    ELSE /\ pc' = "check"
                         /\ fs' = IF o = "built" THEN fs \cup {CargoArtifact(target_target, rw)} ELSE fs
                         /\ UNCHANGED result
    /\ UNCHANGED <<wasm_source, workspace_root, dirs, query, meta_out, index_html>>
    /\ RunFrame

\* Mutation: a missing artifact does not end the run.
CheckArtifactIgnored ==
    /\ pc = "check"
    /\ events' = Append(events, "artifact_check")
    /\ wasm_source' = Some(WasmSource(rw, dirs[1].target_directory))
    /\ pc' = "mkdir"
    /\ UNCHANGED <<build_status, fs, workspace_root, dirs, query, meta_out, cargo_args,
                   index_html, result>>
    /\ UNCHANGED <<entry, argv, css_arg, rw, manifest_dir>>

\* wasm_source.exists()
CheckArtifact ==
    /\ pc = "check"
    /\ events' = Append(events, "artifact_check")
    /\ wasm_source' = Some(WasmSource(rw, dirs[1].target_directory))
    /\ IF WasmSource(rw, dirs[1].target_directory) \in fs
       THEN pc' = "mkdir" /\ UNCHANGED result
       ELSE Finish("err", "There is no binary at {wasm_source:?}")
    /\ UNCHANGED <<build_status, fs, workspace_root, dirs, query, meta_out, cargo_args, index_html>>
    /\ RunFrame

\* create_dir_all(&example_dest).unwrap()
CreateDest ==
    /\ pc = "mkdir"
    /\ \E created \in BOOLEAN :
         IF created
         THEN /\ fs' = fs \cup {ExampleDest(rw, dirs[1].target_directory)}
              /\ events' = Append(events, "create_dir")
              /\ pc' = "bindgen"
              /\ UNCHANGED result
         ELSE Finish("panic", "create_dir_all failed") /\ UNCHANGED <<fs, events>>
    /\ UNCHANGED <<build_status, wasm_source, workspace_root, dirs, query, meta_out, cargo_args, index_html>>
    /\ RunFrame

\* The post-processor: writes the loader code into example_dest, or fails (unwrap).
Bindgen ==
    /\ pc = "bindgen"
    /\ events' = Append(events, "bindgen")
    /\ \E generated \in BOOLEAN :
         IF generated
         THEN /\ fs' = fs \cup {ExampleDest(rw, dirs[1].target_directory) \o <<BinaryName(rw)[1], ".js">>}
              /\ pc' = "write"
              /\ UNCHANGED result
         ELSE Finish("panic", "wasm-bindgen failed") /\ UNCHANGED fs
    /\ UNCHANGED <<build_status, wasm_source, workspace_root, dirs, query, meta_out, cargo_args, index_html>>
    /\ RunFrame

\* index.template.html: a text with the two markers {{name}} and {{css}}.
IndexTemplate ==
    <<"<title>", "{{name}}", "</title>", "<style>", "{{css}}", "</style>",
      "<script>import init from './", "{{name}}", ".js'; init();</script>">>

\* str::replace: every fragment equal to the marker is replaced by the text.
RECURSIVE Replace(_, _, _)
Replace(text, marker, by) ==
    IF text = <<>> THEN <<>>
    ELSE (IF Head(text) = marker THEN by ELSE <<Head(text)>>) \o Replace(Tail(text), marker, by)

\* index_processed
RenderIndex(name, css) == Replace(Replace(IndexTemplate, "{{name}}", <<name>>), "{{css}}", css)

\* Mutation: build_only is not looked at.
WriteIndexAlwaysServes ==
    /\ pc = "write"
    /\ \E written \in BOOLEAN :
         IF written
         THEN /\ index_html' = Some(RenderIndex(BinaryName(rw)[1], rw.css))
              /\ fs' = fs \cup {Join(ExampleDest(rw, dirs[1].target_directory), "index.html")}
              /\ events' = Append(events, "write_index")
              /\ pc' = "serve"
              /\ UNCHANGED result
         ELSE Finish("panic", "could not write index.html") /\ UNCHANGED <<index_html, fs, events>>
    /\ UNCHANGED <<build_status, wasm_source, workspace_root, dirs, query, meta_out, cargo_args>>
    /\ UNCHANGED <<entry, argv, css_arg, rw, manifest_dir>>

\* Write index.html, then return Ok when build_only.
WriteIndex ==
    /\ pc = "write"
    /\ \E written \in BOOLEAN :
         IF written
         THEN /\ index_html' = Some(RenderIndex(BinaryName(rw)[1], rw.css))
              /\ fs' = fs \cup {Join(ExampleDest(rw, dirs[1].target_directory), "index.html")}
              /\ events' = Append(events, "write_index")
              /\ IF rw.build_only
                 THEN Finish("ok", "")
                 ELSE pc' = "serve" /\ UNCHANGED result
         ELSE Finish("panic", "could not write index.html") /\ UNCHANGED <<index_html, fs, events>>
    /\ UNCHANGED <<build_status, wasm_source, workspace_root, dirs, query, meta_out, cargo_args>>
    /\ RunFrame

\* Parse the port and start the server, which serves until the process is killed.
Serve ==
    /\ pc = "serve"
    /\ LET port == IF rw.port = None THEN "8000" ELSE rw.port[1]
       IN IF port \in IntegerTexts
          THEN /\ events' = Append(events, "serve")
               /\ pc' = "serving"
               /\ UNCHANGED result
          ELSE Finish("panic", "Port should be an integer") /\ UNCHANGED events
    /\ UNCHANGED <<build_status, wasm_source, fs, workspace_root, dirs, query, meta_out, cargo_args, index_html>>
    /\ RunFrame

\* -------------------------------------------------------- specification

Next ==
    \/ RunWasmCliWithCss
    \/ LibNew
    \/ WithCss
    \/ WithPackage
    \/ WithExample
    \/ WithBin
    \/ WithProfile
    \/ WithCargoBuildArgs
    \/ WithBuildOnly
    \/ WithPort
    \/ LibRun
    \/ RunBegin
    \/ HeuristicStep
    \/ FromCargoSpawn
    \/ QueryExit
    \/ FromCargoParse
    \/ CargoBuild
    \/ CheckArtifact
    \/ CreateDest
    \/ Bindgen
    \/ WriteIndex
    \/ Serve

Spec == Init /\ [][Next]_vars

\* The tool used as a library only: every step but the command-line entry point.
NextLib ==
    \/ LibNew
    \/ WithCss
    \/ WithPackage
    \/ WithExample
    \/ WithBin
    \/ WithProfile
    \/ WithCargoBuildArgs
    \/ WithBuildOnly
    \/ WithPort
    \/ LibRun
    \/ RunBegin
    \/ HeuristicStep
    \/ FromCargoSpawn
    \/ QueryExit
    \/ FromCargoParse
    \/ CargoBuild
    \/ CheckArtifact
    \/ CreateDest
    \/ Bindgen
    \/ WriteIndex
    \/ Serve

SpecLib == Init /\ [][NextLib]_vars

\* ------------------------------------------------------------- properties

EventSet == {events[i] : i \in 1..Len(events)}

\* The positions of run() after CargoDirectories::new has returned.
AfterResolve == {"build", "check", "mkdir", "bindgen", "write", "serve", "serving"}

\* Directory d holds both `target` and `Cargo.toml`.
BothExist(d) == Append(d, "target") \in fs /\ Append(d, "Cargo.toml") \in fs

Chain == {SubSeq(manifest_dir, 1, k) : k \in 0..Len(manifest_dir)}

SomeAncestorMatches == \E d \in Chain : BothExist(d)

\* The first matching directory on the chain from the manifest directory to the root.
FirstMatching ==
    CHOOSE d \in Chain : BothExist(d) /\ \A e \in Chain : BothExist(e) => Len(e) <= Len(d)

\* C1: when some directory on the chain from the manifest directory to the root
\* holds both `target` and `Cargo.toml`, CargoDirectories::new returns the first
\* such directory as workspace_root and its `target` as target_directory, and the
\* metadata query is never started, so nothing it could report plays a part.
C1_HeuristicResult ==
    SomeAncestorMatches =>
        /\ query = "not_started"
        /\ meta_out = None
        /\ "metadata_query" \notin EventSet
        /\ pc \notin {"from_cargo", "query_wait"}
        /\ (pc = "resolve" => Len(workspace_root) >= Len(FirstMatching))
        /\ (pc \in AfterResolve \/ dirs # None =>
              dirs = Some([workspace_root |-> FirstMatching,
                           target_directory |-> Append(FirstMatching, "target")]))

\* The heuristic returned a proper ancestor of the manifest directory.
C1_Witness ==
    /\ pc = "build"
    /\ SomeAncestorMatches
    /\ FirstMatching # manifest_dir
    /\ dirs # None

\* C2: when no directory on the chain holds both `target` and `Cargo.toml`, the
\* directories returned are exactly the workspace_root and target_directory strings
\* the metadata query printed.
C2_MetadataResult ==
    (~SomeAncestorMatches /\ dirs # None) =>
        /\ meta_out # None
        /\ meta_out[1].stdout.kind = "object"
        /\ meta_out[1].stdout.workspace_root.tag = "string"
        /\ meta_out[1].stdout.target_directory.tag = "string"
        /\ dirs[1].workspace_root = meta_out[1].stdout.workspace_root.path
        /\ dirs[1].target_directory = meta_out[1].stdout.target_directory.path

\* The metadata query's answer was returned after the walk found nothing.
C2_Witness ==
    /\ ~SomeAncestorMatches
    /\ dirs # None
    /\ pc = "build"

\* The flags the user supplied: the command line, or the passthrough list.
SuppliedFlags ==
    IF entry = "cli" THEN argv
    ELSE IF entry = "lib" THEN rw.cargo_build_args
    ELSE <<>>

BannedSupplied ==
    /\ pc \notin {"start", "builder"}
    /\ \E i \in 1..Len(SuppliedFlags) : SuppliedFlags[i] \in {"--target", "--target-dir"}

\* The paths the invocation itself has put on disk.
Written == fs \ ({Append(d, "target") : d \in Chain} \cup {Append(d, "Cargo.toml") : d \in Chain})

NothingExternal ==
    /\ events = <<>>
    /\ query = "not_started"
    /\ build_status = "none"
    /\ Written = {}
    /\ index_html = None

\* C3: when the user-supplied flags (the command line, or the list given to
\* with_cargo_build_args) contain `--target` or `--target-dir`, the invocation ends
\* in an error (returned or panicked, never a success), and no external process
\* has been started and no file written.
C3_BannedFlagsRejected ==
    BannedSupplied =>
        /\ NothingExternal
        /\ pc # "serving"
        /\ (pc = "done" => result.tag \in {"err", "panic"})

LaterSteps == {"create_dir", "bindgen", "write_index", "serve"}

\* The bundle directory of the run: target_directory/wasm-examples/<name>.
BundleDir == dirs[1].target_directory \o <<"wasm-examples", BinaryName(rw)[1]>>

ArtifactMissing == Ended("err", "There is no binary at {wasm_source:?}")

\* C4: when the compiler exited successfully and the artifact path looked for does
\* not exist, run() has returned the artifact-missing error as an Err value, the
\* bundle directory was not created, the post-processor was not invoked, no
\* index.html was written and the server was not started.
C4_ArtifactMissing ==
    (build_status = "success" /\ wasm_source # None /\ wasm_source[1] \notin fs) =>
        /\ pc = "done"
        /\ result = ArtifactMissing
        /\ EventSet \cap LaterSteps = {}
        /\ BundleDir \notin fs
        /\ Written = {}
        /\ index_html = None

\* The compiler succeeded for a package selector and left no binary.
C4_Witness ==
    /\ build_status = "success"
    /\ wasm_source # None
    /\ wasm_source[1] \notin fs
    /\ rw.package # None
    /\ rw.example = None
    /\ result = ArtifactMissing

HasStyleClose(text) == \E i \in 1..Len(text) : text[i] = "</style>"

QueryUnusable ==
    /\ meta_out # None
    /\ \/ ~meta_out[1].success
       \/ meta_out[1].stdout.kind # "object"
       \/ meta_out[1].stdout.target_directory.tag # "string"
       \/ meta_out[1].stdout.workspace_root.tag # "string"

\* C6: when the metadata query is used and fails (failure status, or unparseable
\* output), the resolution fails with an error that run() returns as an Err with a
\* message, and the compiler and every later step do not run.
C6_ResolutionErrorReturned ==
    QueryUnusable =>
        /\ pc \in {"query_wait", "done"}
        /\ (pc = "done" => result.tag = "err" /\ result.msg # "")
        /\ build_status = "none"
        /\ EventSet \subseteq {"metadata_query"}

CargoFailed == Ended("err", "Failed due to cargo error")

\* C7: when the compiler exited with a non-zero status, run() has stopped with the
\* generic failure, the artifact path was not checked, the bundle directory was not
\* created, the post-processor was not invoked, no index.html was written and the
\* server was not started.
C7_CompilerFailureStops ==
    build_status = "failed" =>
        /\ pc = "done"
        /\ result = CargoFailed
        /\ wasm_source = None
        /\ events[Len(events)] = "cargo_build"
        /\ EventSet \cap ({"artifact_check"} \cup LaterSteps) = {}
        /\ Written = {}
        /\ index_html = None

\* The compiler was run with a profile and failed.
C7_Witness ==
    /\ build_status = "failed"
    /\ rw.profile # None
    /\ "cargo_build" \in EventSet

ClaimProfileDir ==
    IF rw.profile = None \/ rw.profile = Some("dev") THEN "debug" ELSE rw.profile[1]

ClaimName ==
    IF rw.example # None THEN rw.example[1]
    ELSE IF rw.bin # None THEN rw.bin[1]
    ELSE rw.package[1]

\* C10: the artifact path looked for is
\* T/wasm-examples-target/wasm32-unknown-unknown/<P>/[examples/]<N>.wasm, with P
\* `debug` for no profile or `dev` and the profile name otherwise, `examples`
\* exactly when an example is selected, N the example, else the bin, else the
\* package; and the --target-dir given to the compiler is T/wasm-examples-target,
\* which differs from T.
C10_ArtifactPath ==
    /\ wasm_source # None =>
          wasm_source[1] =
              dirs[1].target_directory
              \o <<"wasm-examples-target", "wasm32-unknown-unknown", ClaimProfileDir>>
              \o (IF rw.example # None THEN <<"examples">> ELSE <<>>)
              \o <<ClaimName, ".wasm">>
    /\ build_status # "none" =>
          /\ cargo_args.head = <<"build", "--target", "wasm32-unknown-unknown", "--target-dir">>
          /\ cargo_args.target_dir = dirs[1].target_directory \o <<"wasm-examples-target">>
          /\ cargo_args.target_dir # dirs[1].target_directory

\* An example was looked for under the `dev` profile although a bin was named too.
C10_Witness ==
    /\ wasm_source # None
    /\ rw.profile = Some("dev")
    /\ rw.example # None
    /\ rw.bin # None

\* The steps of run() in the order the claim gives; the metadata query is the
\* external part of the directory resolution.
StepOrder ==
    <<"metadata_query", "cargo_build", "artifact_check", "create_dir", "bindgen",
      "write_index", "serve">>

StepRank(e) == CHOOSE k \in 1..Len(StepOrder) : StepOrder[k] = e

Happened(e) == \E i \in 1..Len(events) : events[i] = e

\* C11: in one invocation of run() the steps directory resolution, compiler,
\* artifact check, bundle directory creation, post-processor, index.html write and
\* server start happen in that order, each at most once (the metadata query
\* included), each only after the step before it has completed successfully, and
\* the server is started only when build_only is false.
C11_StepsInOrderOnce ==
    /\ \A i \in 1..Len(events) : \E k \in 1..Len(StepOrder) : StepOrder[k] = events[i]
    /\ \A i, j \in 1..Len(events) : i < j => StepRank(events[i]) < StepRank(events[j])
    /\ Happened("cargo_build") =>
          /\ dirs # None
          /\ pc \notin {"start", "builder", "run", "resolve", "from_cargo", "query_wait"}
          /\ query \in {"not_started", "exited"}
    /\ Happened("artifact_check") => Happened("cargo_build") /\ build_status = "success"
    /\ Happened("create_dir") =>
          /\ Happened("artifact_check")
          /\ wasm_source # None
          /\ wasm_source[1] \in fs
          /\ BundleDir \in fs
    /\ Happened("bindgen") => Happened("create_dir")
    /\ Happened("write_index") =>
          /\ Happened("bindgen")
          /\ (BundleDir \o <<BinaryName(rw)[1], ".js">>) \in fs
          /\ index_html # None
    /\ Happened("serve") =>
          /\ Happened("write_index")
          /\ ~rw.build_only
          /\ pc = "serving"
    /\ (pc = "done" /\ result.tag = "ok") =>
          /\ rw.build_only
          /\ events[Len(events)] = "write_index"

\* Every step has happened, the metadata query included, and the server runs.
C11_Witness ==
    /\ pc = "serving"
    /\ Len(events) = Len(StepOrder)
    /\ events = StepOrder

====
